---- MODULE Spec2Model ----
(***************************************************************************)
(* A model of the ipm package manager (src/ipm/common.py, src/ipm/manage.py) *)
(* The state is what the tool keeps on disk: the registry                   *)
(* (Installed_IPs.json), the dependency manifests (dependencies.json, one   *)
(* per location), and the install directories ip_root/<ip>.  Every command  *)
(* of the CLI is one action: the tool is single-threaded and synchronous,   *)
(* so a command runs from its first read to its return, exit or exception.  *)
(***************************************************************************)
EXTENDS Integers, Sequences, FiniteSets, TLC

VARIABLES
    reg,        \* Installed_IPs.json: bucket name -> list of installed records
    deps,       \* dependencies.json per location: [exists, IP (list of entries)]
    fs,         \* install directories: <<ip_root, ip>> -> [exists, files]
    rootDirs,   \* the ip-root directories that exist
    catalog,    \* the remote catalog document (flat schema): name -> record
    last,       \* the last command: its arguments, its outcome, what it reported
    steps,      \* the number of commands run so far
    probe       \* a download request on its own: token, repository, headers

vars == <<reg, deps, fs, rootDirs, catalog, last, steps, probe>>

----------------------------------------------------------------------------
(* Bounds of the model *)

\* the registry holds at most this many records in all
MaxRecs == 2
\* a dependency manifest lists at most this many entries
MaxDeps == 2
\* a run is at most this many commands
MaxSteps == 4
\* the path of a repository string has at most this many tokens
MaxRepoLen == 3
\* the host of a repository string has at most this many tokens
MaxHostLen == 2
\* a repository string has at most this many segments after its host
MaxSegs == 3

----------------------------------------------------------------------------
(* Values *)

None == "None"
Names == {"p", "q"}
Roots == {"R1", "R2"}
\* IP_DEFAULT_ROOT: the root that exists from the start (it is also IPM home)
DefaultRoot == "R1"
\* the --deps-file of a command: none given, so that the manifest is the
\* dependencies.json of the install root
DepFiles == {None}
\* locations of a dependencies.json
DepLocs == Roots \cup (DepFiles \ {None})
Versions == {"v1", "v2"}
\* the --version of an install: none (the latest), or v1, which p has and q
\* has not
AskedVersions == {None, "v1"}
DefaultTech == "sky130"
\* the --technology of an install: the default in Spec, either of the two
\* the tool names (manage.py line 51) in SpecTech
Techs == {DefaultTech}
AllTechs == {"sky130", "gf180mcu"}
HTTP_OK == 200
HTTP_NOT_FOUND == 404

\* create_local_JSON: the buckets of a fresh registry, in the order written
Buckets == <<"analog", "comm", "dataconv", "digital", "technolgy">>
BucketSet == {Buckets[i] : i \in 1..Len(Buckets)}

create_local_JSON == [b \in BucketSet |-> <<>>]

\* a repository string, as the list of its tokens; "/" separates the parts
GitHubHost == "github.com"
RepoP == <<"github.com", "/", "acme", "/", "p">>
RepoQ == <<"gitlab.com", "/", "acme", "/", "q">>

\* The catalog served at REMOTE_JSON_FILE_NAME.  qcat is the category of q:
\* the backend's IP.category is any string (the repository's test data has
\* "test").
CatalogDoc(qcat) ==
    [p |-> [repo |-> RepoP, category |-> "digital", release |-> <<"v1", "v2">>],
     q |-> [repo |-> RepoQ, category |-> qcat, release |-> <<"v2">>]]

Catalogs == {CatalogDoc("analog"), CatalogDoc("test")}

----------------------------------------------------------------------------
(* Helpers on sequences *)

Range(s) == {s[i] : i \in 1..Len(s)}

SetMax(S) == CHOOSE x \in S : \A y \in S : y <= x

SetMin(S) == CHOOSE x \in S : \A y \in S : x <= y

RemoveAt(s, k) == [i \in 1..(Len(s) - 1) |-> IF i < k THEN s[i] ELSE s[i + 1]]

\* list.remove(x): drops the first element equal to x
ListRemove(s, x) ==
    LET at == {j \in 1..Len(s) : s[j] = x}
    IN IF at = {} THEN s ELSE RemoveAt(s, SetMin(at))

\* "for x in lst: if match(x): lst.remove(x)": the loop's index moves on
\* after every element, also after a removal has shifted the list
RECURSIVE RemoveWhileIteratingFrom(_, _, _)
RemoveWhileIteratingFrom(lst, i, matching) ==
    IF i > Len(lst) THEN lst
    ELSE IF lst[i] \in matching
         THEN RemoveWhileIteratingFrom(ListRemove(lst, lst[i]), i + 1, matching)
         ELSE RemoveWhileIteratingFrom(lst, i + 1, matching)

RemoveWhileIterating(lst, matching) == RemoveWhileIteratingFrom(lst, 1, matching)

----------------------------------------------------------------------------
(* LocalIP: the registry and the dependency manifest *)

\* data.items() then "for value in values": every record with its bucket
RECURSIVE RegItemsFrom(_, _)
RegItemsFrom(r, k) ==
    IF k > Len(Buckets) THEN <<>>
    ELSE [i \in 1..Len(r[Buckets[k]]) |->
            [category |-> Buckets[k], rec |-> r[Buckets[k]][i]]]
         \o RegItemsFrom(r, k + 1)

RegItems(r) == RegItemsFrom(r, 1)

RegCount(r) == Len(RegItems(r))

\* LocalIP.get_info: the attributes are those of the LAST record matching the
\* name and the technology; with no match self.repo is unset and line 113
\* raises AttributeError (found = FALSE)
LocalIP_get_info(r, ip, technology) ==
    LET all == RegItems(r)
        idx == {i \in 1..Len(all) : all[i].rec.name = ip
                                    /\ all[i].rec.technology = technology}
    IN IF idx = {}
       THEN [found |-> FALSE, version |-> None, ip_root |-> None, category |-> None]
       ELSE LET m == all[SetMax(idx)]
            IN [found |-> TRUE, version |-> m.rec.version,
                ip_root |-> m.rec.ip_root, category |-> m.category]

\* LocalIP.remove_ip_from_json: get_info() with its default technology, then
\* the remove-while-iterating loop over the bucket, matching the name and the
\* root that get_info found
remove_ip_from_json(r, ip) ==
    LET info == LocalIP_get_info(r, ip, DefaultTech)
    IN IF ~info.found
       THEN [ok |-> FALSE, reg |-> r, ip_root |-> None, version |-> None]
       ELSE LET bucket == r[info.category]
                matching == {x \in Range(bucket) :
                                x.name = ip /\ x.ip_root = info.ip_root}
            IN [ok |-> TRUE,
                reg |-> [r EXCEPT ![info.category] =
                            RemoveWhileIterating(bucket, matching)],
                ip_root |-> info.ip_root,
                version |-> info.version]

\* the location of the manifest: deps_file if given, else self.ip_root
DepsLoc(deps_file, self_ip_root) ==
    IF deps_file # None THEN deps_file ELSE self_ip_root

\* LocalIP.remove_from_deps: open() raises when the file is missing
remove_from_deps(d, ip, deps_file, self_ip_root) ==
    LET loc == DepsLoc(deps_file, self_ip_root)
    IN IF ~d[loc].exists
       THEN [ok |-> FALSE, deps |-> d]
       ELSE LET lst == d[loc].IP
                matching == {x \in Range(lst) : x.name = ip}
            IN [ok |-> TRUE,
                deps |-> [d EXCEPT ![loc] =
                    [exists |-> TRUE, IP |-> RemoveWhileIterating(lst, matching)]]]

\* LocalIP.add_ip_to_json: json_decoded[category].append(...); a category
\* that is no bucket raises KeyError
add_ip_to_json(r, info, ip_root) ==
    IF info.category \notin BucketSet
    THEN [ok |-> FALSE, reg |-> r]
    ELSE [ok |-> TRUE,
          reg |-> [r EXCEPT ![info.category] =
                      Append(@, [name |-> info.name, version |-> info.version,
                                 technology |-> info.technology,
                                 ip_root |-> ip_root])]]

\* LocalIP.create_deps: creates the manifest when missing, appends always
create_deps(d, info, deps_file, self_ip_root) ==
    LET loc == DepsLoc(deps_file, self_ip_root)
        old == IF d[loc].exists THEN d[loc].IP ELSE <<>>
    IN [d EXCEPT ![loc] =
           [exists |-> TRUE,
            IP |-> Append(old, [name |-> info.name, version |-> info.version,
                                technology |-> info.technology])]]

\* get_IP_list(remote=False): the registry is in the bucket layout (its first
\* value is a list, which has no "description"), so the names of all records
get_IP_list_local(r) == [i \in 1..RegCount(r) |-> RegItems(r)[i].rec.name]

\* get_IP_list(remote=True) on the flat catalog: its keys
get_IP_list_remote(cat) == DOMAIN cat

----------------------------------------------------------------------------
(* RemoteIP *)

\* a resolver that takes the first key of the release mapping as the latest
RemoteIP_get_info_First(cat, ip, technology, version) ==
    LET value == cat[ip]
        rel == value.release
        has == IF version = None THEN Len(rel) > 0 ELSE version \in Range(rel)
    IN [ok |-> has,
        name |-> ip,
        repo |-> value.repo,
        category |-> value.category,
        technology |-> technology,
        version |-> IF ~has THEN None
                    ELSE IF version = None THEN rel[1] ELSE version]

\* RemoteIP.get_info, flat branch.  With version None the last key of the
\* release mapping; a version that is no key leaves self.version unset, and
\* building the URL (line 282/285) raises AttributeError (ok = FALSE)
RemoteIP_get_info(cat, ip, technology, version) ==
    LET value == cat[ip]
        rel == value.release
        has == IF version = None THEN Len(rel) > 0 ELSE version \in Range(rel)
    IN [ok |-> has,
        name |-> ip,
        repo |-> value.repo,
        category |-> value.category,
        technology |-> technology,
        version |-> IF ~has THEN None
                    ELSE IF version = None THEN rel[Len(rel)] ELSE version]

\* "github.com" in repo: a substring test over the whole repository string
RepoContains(repo, tok) == \E i \in 1..Len(repo) : repo[i] = tok

\* the host of a repository string: what precedes its first "/"
RECURSIVE RepoHostFrom(_, _)
RepoHostFrom(repo, i) ==
    IF i > Len(repo) \/ repo[i] = "/" THEN <<>>
    ELSE <<repo[i]>> \o RepoHostFrom(repo, i + 1)

RepoHost(repo) == RepoHostFrom(repo, 1)

\* install_ip lines 759-761: whether the Authorization header is set
AuthHeader(token, repo) == token /\ RepoContains(repo, GitHubHost)

----------------------------------------------------------------------------
(* The archive and the install directory *)

NoDir == [exists |-> FALSE, files |-> {}]

\* the files of a release
ReleaseFiles(ip, version) == {<<"json", ip>>, <<"rel", version>>}

\* the listing of the scratch directory after extraction: a GitHub source
\* archive has one top-level directory, a release asset has the files
Scratch(cat, ip, version) ==
    IF RepoHost(cat[ip].repo) = <<GitHubHost>>
    THEN {[ename |-> <<"top", ip>>, isdir |-> TRUE,
           children |-> ReleaseFiles(ip, version)]}
    ELSE {[ename |-> f, isdir |-> FALSE, children |-> {}] :
            f \in ReleaseFiles(ip, version)}

\* a copy that takes the entries of the scratch directory whatever they are
Extracted_AlwaysFlat(scratch) == {e.ename : e \in scratch}

\* install_ip lines 793-822: what is copied to ip_path
Extracted(scratch) ==
    IF Cardinality(scratch) = 1 /\ (\A e \in scratch : e.isdir)
    THEN UNION {e.children : e \in scratch}
    ELSE {e.ename : e \in scratch}

----------------------------------------------------------------------------
(* install_ip, uninstall_ip, check_IP: each takes the state st = [reg, deps,
   fs] it runs on and yields the state it leaves, with
     out  how it ended: "ok", a return without work ("exists", "notfound"),
          exit(1) ("exit_download") or an uncaught exception ("crash_...")
     dl   the download requests sent, in order *)

Res(r, d, f, out, dl) ==
    [reg |-> r, deps |-> d, fs |-> f, out |-> out, dl |-> dl,
     report |-> None, count |-> 0, seen |-> None, visited |-> <<>>]

\* the files a step left, as the state the next step starts from
StateOf(res) == [reg |-> res.reg, deps |-> res.deps, fs |-> res.fs]

\* exit(1) or an exception: the command goes no further
Aborted(out) == out \notin {"ok", "exists", "notfound"}

\* a local variable of the code: F of the value x
With(x, F(_)) == F(x)

\* the registry of st after add_ip_to_json, the files in place and the
\* manifest entry (lines 824-832); KeyError of an unknown category
Register(st, remote, req, f2, add, ip_root, deps_file) ==
    IF ~add.ok
    THEN Res(st.reg, st.deps, f2, "crash_category", <<req>>)
    ELSE Res(add.reg, create_deps(st.deps, remote, deps_file, ip_root), f2,
             "ok", <<req>>)

\* as InstallFetch, but the record is written to the registry before the
\* status of the download is looked at
InstallFetch_RegisterFirst(st, cat, http, ip, technology, version, ip_root, deps_file) ==
    With(RemoteIP_get_info(cat, ip, technology, version), LAMBDA remote :
    With(add_ip_to_json(st.reg, remote, ip_root), LAMBDA add :
        LET req == [ip |-> ip, repo |-> remote.repo, version |-> remote.version]
            f2 == [st.fs EXCEPT ![<<ip_root, ip>>] =
                      [exists |-> TRUE,
                       files |-> Extracted(Scratch(cat, ip, remote.version))]]
        IN IF ~remote.ok
           THEN Res(st.reg, st.deps, st.fs, "crash_resolve", <<>>)
           ELSE IF ~add.ok
           THEN Res(st.reg, st.deps, st.fs, "crash_category", <<>>)
           ELSE IF http[ip] # HTTP_OK
           THEN Res(add.reg, st.deps, st.fs, "exit_download", <<req>>)
           ELSE Register(st, remote, req, f2, add, ip_root, deps_file)))

\* install_ip from line 753: resolve, download, extract, copy, register.
\* http[ip] is the status the archive host answers with
InstallFetch(st, cat, http, ip, technology, version, ip_root, deps_file) ==
    With(RemoteIP_get_info(cat, ip, technology, version), LAMBDA remote :
        LET req == [ip |-> ip, repo |-> remote.repo, version |-> remote.version]
            f2 == [st.fs EXCEPT ![<<ip_root, ip>>] =
                      [exists |-> TRUE,
                       files |-> Extracted(Scratch(cat, ip, remote.version))]]
        IN IF ~remote.ok
           THEN Res(st.reg, st.deps, st.fs, "crash_resolve", <<>>)
           ELSE IF http[ip] # HTTP_OK
           THEN Res(st.reg, st.deps, st.fs, "exit_download", <<req>>)
           ELSE Register(st, remote, req, f2,
                         add_ip_to_json(st.reg, remote, ip_root),
                         ip_root, deps_file))

\* what install_ip with overwrite (lines 745-749) and uninstall_ip (lines
\* 963-965) remove: the record, the manifest entry, the directory
RemoveExisting(st, ip, ip_root, deps_file) ==
    With(remove_ip_from_json(st.reg, ip), LAMBDA rm :
        IF ~rm.ok
        THEN Res(st.reg, st.deps, st.fs, "crash_getinfo", <<>>)
        ELSE With(remove_from_deps(st.deps, ip, deps_file, rm.ip_root), LAMBDA rd :
                IF ~rd.ok
                THEN Res(rm.reg, st.deps, st.fs, "crash_deps", <<>>)
                ELSE Res(rm.reg, rd.deps,
                         [st.fs EXCEPT ![<<ip_root, ip>>] = NoDir], "ok", <<>>)))

\* install_ip on an absent or empty destination: rmtree of the empty
\* directory (line 751), then the rest
InstallFresh(st, cat, http, ip, technology, version, ip_root, deps_file) ==
    InstallFetch([reg |-> st.reg, deps |-> st.deps,
                  fs |-> [st.fs EXCEPT ![<<ip_root, ip>>] = NoDir]],
                 cat, http, ip, technology, version, ip_root, deps_file)

\* an overwrite that removes the existing install and stops there
InstallOver_RemoveOnly(st, cat, http, ip, technology, version, ip_root, deps_file) ==
    RemoveExisting(st, ip, ip_root, deps_file)

\* install_ip with overwrite on a non-empty destination
InstallOver(st, cat, http, ip, technology, version, ip_root, deps_file) ==
    With(RemoveExisting(st, ip, ip_root, deps_file), LAMBDA rem :
        IF Aborted(rem.out) THEN rem
        ELSE InstallFetch(StateOf(rem), cat, http, ip, technology, version,
                          ip_root, deps_file))

\* as install_ip, but a non-empty destination is overwritten whether or not
\* --overwrite is given
install_ip_NoGuard(st, cat, http, ip, overwrite, technology, version, ip_root, deps_file) ==
    IF st.fs[<<ip_root, ip>>].exists /\ st.fs[<<ip_root, ip>>].files # {}
    THEN InstallOver(st, cat, http, ip, technology, version, ip_root, deps_file)
    ELSE InstallFresh(st, cat, http, ip, technology, version, ip_root, deps_file)

\* install_ip: the guard on the destination (lines 735-751), then the rest
install_ip(st, cat, http, ip, overwrite, technology, version, ip_root, deps_file) ==
    IF st.fs[<<ip_root, ip>>].exists /\ st.fs[<<ip_root, ip>>].files # {}
    THEN IF ~overwrite
         THEN Res(st.reg, st.deps, st.fs, "exists", <<>>)
         ELSE InstallOver(st, cat, http, ip, technology, version, ip_root,
                          deps_file)
    ELSE InstallFresh(st, cat, http, ip, technology, version, ip_root, deps_file)

\* uninstall_ip: the removals when the directory exists, else a message
uninstall_ip(st, ip, ip_root, deps_file) ==
    IF ~st.fs[<<ip_root, ip>>].exists
    THEN Res(st.reg, st.deps, st.fs, "notfound", <<>>)
    ELSE RemoveExisting(st, ip, ip_root, deps_file)

\* as Reinstall, but the new version goes to the default root
Reinstall_DefaultRoot(st, cat, http, ip, technology, version, ip_root) ==
    With(uninstall_ip(st, ip, ip_root, ip_root), LAMBDA un :
        IF Aborted(un.out) THEN un
        ELSE install_ip(StateOf(un), cat, http, ip, TRUE, technology, version,
                        DefaultRoot, DefaultRoot))

\* check_IP lines 1009-1019 and 1050-1060: uninstall, then install with
\* overwrite at the root of the local record
Reinstall(st, cat, http, ip, technology, version, ip_root) ==
    With(uninstall_ip(st, ip, ip_root, ip_root), LAMBDA un :
        IF Aborted(un.out) THEN un
        ELSE install_ip(StateOf(un), cat, http, ip, TRUE, technology, version,
                        ip_root, ip_root))

\* check_IP, single-package branch (lines 1037-1065).  The comparison is
\* with the version ARGUMENT (line 1042)
check_IP_single(st, cat, http, ip, update, version, technology) ==
    With(LocalIP_get_info(st.reg, ip, technology), LAMBDA local :
    With(RemoteIP_get_info(cat, ip, technology, version), LAMBDA remote :
        LET same == Res(st.reg, st.deps, st.fs, "ok", <<>>)
        IN IF ~local.found
           THEN [out |-> "crash_getinfo"] @@ same
           ELSE IF ~remote.ok
           THEN [out |-> "crash_resolve"] @@ same
           ELSE IF local.version = version
           THEN [report |-> "UpToDate", seen |-> local.version] @@ same
           ELSE IF update
           THEN With(Reinstall(st, cat, http, ip, technology, version,
                               local.ip_root), LAMBDA re :
                    [report |-> IF re.out = "ok" THEN "Updated" ELSE None,
                     seen |-> local.version] @@ re)
           ELSE [report |-> "UpdateAvailable", seen |-> local.version] @@ same))

\* check_IP, "all" branch: one turn of the loop of lines 990-1026, for the
\* package ip.  count is 1 when update_counter goes up
check_IP_turn(st, cat, http, ip, update, version, technology) ==
    With(LocalIP_get_info(st.reg, ip, technology), LAMBDA local :
    With(RemoteIP_get_info(cat, ip, technology, version), LAMBDA remote :
        LET same == Res(st.reg, st.deps, st.fs, "ok", <<>>)
        IN IF ~local.found
           THEN [out |-> "crash_getinfo"] @@ same
           ELSE IF ~remote.ok
           THEN [out |-> "crash_resolve"] @@ same
           ELSE IF version # None \/ local.version = remote.version
           THEN same
           ELSE IF update
           THEN With(Reinstall(st, cat, http, ip, technology, remote.version,
                               local.ip_root), LAMBDA re :
                    [count |-> IF Aborted(re.out) THEN 0 ELSE 1] @@ re)
           ELSE [count |-> 1] @@ same))

\* a loop that goes on to the next package after a turn that exited, and
\* ends with the outcome of that turn
RECURSIVE check_IP_loop_Continue(_, _, _, _, _, _, _, _, _)
check_IP_loop_Continue(st, cat, http, IP_list, i, update, version, technology, acc) ==
    IF i > Len(IP_list)
    THEN [count |-> acc.count, dl |-> acc.dl, visited |-> acc.visited,
          out |-> IF "out" \in DOMAIN acc THEN acc.out ELSE "ok"]
         @@ Res(st.reg, st.deps, st.fs, "ok", <<>>)
    ELSE With(check_IP_turn(st, cat, http, IP_list[i], update, version,
                            technology), LAMBDA turn :
            check_IP_loop_Continue(StateOf(turn), cat, http, IP_list, i + 1,
                                   update, version, technology,
                                   [count |-> acc.count + turn.count,
                                    dl |-> acc.dl \o turn.dl,
                                    visited |-> Append(acc.visited, IP_list[i]),
                                    out |-> IF "out" \in DOMAIN acc THEN acc.out
                                            ELSE IF Aborted(turn.out) THEN turn.out
                                            ELSE "ok"]))

\* check_IP, "all" branch: the loop over IP_list from position i, with the
\* state, the counter, the requests and the packages visited so far
RECURSIVE check_IP_loop(_, _, _, _, _, _, _, _, _)
check_IP_loop(st, cat, http, IP_list, i, update, version, technology, acc) ==
    IF i > Len(IP_list)
    THEN [count |-> acc.count, dl |-> acc.dl, visited |-> acc.visited]
         @@ Res(st.reg, st.deps, st.fs, "ok", <<>>)
    ELSE With(check_IP_turn(st, cat, http, IP_list[i], update, version,
                            technology), LAMBDA turn :
            IF Aborted(turn.out)
            THEN [count |-> acc.count + turn.count, dl |-> acc.dl \o turn.dl,
                  visited |-> Append(acc.visited, IP_list[i])]
                 @@ turn
            ELSE check_IP_loop(StateOf(turn), cat, http, IP_list, i + 1, update,
                               version, technology,
                               [count |-> acc.count + turn.count,
                                dl |-> acc.dl \o turn.dl,
                                visited |-> Append(acc.visited, IP_list[i])]))

\* check_IP (lines 975-1065)
check_IP(st, cat, http, ip, update, version, technology) ==
    IF ip = "all"
    THEN check_IP_loop(st, cat, http, get_IP_list_local(st.reg), 1, update,
                       version, technology,
                       [count |-> 0, dl |-> <<>>, visited |-> <<>>])
    ELSE check_IP_single(st, cat, http, ip, update, version, technology)

----------------------------------------------------------------------------
(* The commands of manage.py *)

State == [reg |-> reg, deps |-> deps, fs |-> fs]

\* the contents of the manifests, a missing file read as an empty list
DepsContents(d) == [l \in DepLocs |-> d[l].IP]

\* what `last` records of a command: its arguments, how it ended (out), the
\* packages whose archive it requested (dl), what it reported (report,
\* count) and the installed version a single check or update read (seen)
Cmd(op, ip, ip_root, overwrite, technology, version, deps_file, res) ==
    [op |-> op, ip |-> ip, root |-> ip_root, ow |-> overwrite,
     tech |-> technology, ver |-> version, dfile |-> deps_file,
     out |-> res.out, dl |-> [i \in 1..Len(res.dl) |-> res.dl[i].ip],
     report |-> res.report, count |-> res.count, seen |-> res.seen,
     visited |-> res.visited]

\* the bounds of the model, on the state a command leaves
WithinBounds(res) ==
    /\ RegCount(res.reg) <= MaxRecs
    /\ \A l \in DepLocs : Len(res.deps[l].IP) <= MaxDeps

Leave(res) ==
    /\ WithinBounds(res)
    /\ reg' = res.reg
    /\ deps' = res.deps
    /\ fs' = res.fs

\* the command has run with the result res
Done(op, ip, ip_root, overwrite, technology, version, deps_file, res) ==
    /\ Leave(res)
    /\ last' = Cmd(op, ip, ip_root, overwrite, technology, version, deps_file, res)

\* whether ip is in the list of installed packages
Installed(r, ip) == \E i \in 1..RegCount(r) : get_IP_list_local(r)[i] = ip

\* check_ip_root_dir: creates the ip-root directory when it is missing
check_ip_root_dir(ip_root) == rootDirs' = rootDirs \cup {ip_root}

\* install_cmd -> install -> install_ip
install_cmd(ip, ip_root, overwrite, technology, version, deps_file, status) ==
    /\ Done("install", ip, ip_root, overwrite, technology, version, deps_file,
            IF ip \notin get_IP_list_remote(catalog)
            THEN Res(reg, deps, fs, "invalid", <<>>)
            ELSE install_ip(State, catalog, [n \in Names |-> status], ip,
                            overwrite, technology, version, ip_root, deps_file))
    /\ check_ip_root_dir(ip_root)
    /\ UNCHANGED <<catalog, probe>>

\* uninstall_cmd -> uninstall_ip
uninstall_cmd(ip, ip_root, dep_file) ==
    /\ Done("uninstall", ip, ip_root, FALSE, DefaultTech, None, dep_file,
            IF ~Installed(reg, ip)
            THEN Res(reg, deps, fs, "invalid", <<>>)
            ELSE uninstall_ip(State, ip, ip_root, dep_file))
    /\ check_ip_root_dir(ip_root)
    /\ UNCHANGED <<catalog, probe>>

\* check_cmd: check_IP with update=False, for one package or for "all"
check_cmd(ip) ==
    /\ Done("check", ip, None, FALSE, DefaultTech, None, None,
            IF ip # "all" /\ ~Installed(reg, ip)
            THEN Res(reg, deps, fs, "invalid", <<>>)
            ELSE check_IP(State, catalog, [n \in Names |-> HTTP_OK], ip,
                          FALSE, None, DefaultTech))
    /\ UNCHANGED <<rootDirs, catalog, probe>>

\* update_cmd: check_IP with update=True, for one package or for "all".
\* The archive host answers 404 for the packages in failing
update_cmd(ip, failing) ==
    /\ Done("update", ip, None, TRUE, DefaultTech, None, None,
            IF ip # "all" /\ ~Installed(reg, ip)
            THEN Res(reg, deps, fs, "invalid", <<>>)
            ELSE check_IP(State, catalog,
                          [n \in Names |-> IF n \in failing THEN HTTP_NOT_FOUND
                                                            ELSE HTTP_OK],
                          ip, TRUE, None, DefaultTech))
    /\ UNCHANGED <<rootDirs, catalog, probe>>

\* a scan that lists every record, whatever its root
entries_to_remove_All(r, ip_root) ==
    LET all == RegItems(r)
    IN [i \in 1..Len(all) |-> <<all[i].rec.name, all[i].rec.ip_root>>]

\* cleanup_cmd lines 484-490: the (name, ip_root) of every record stored
\* under another root, in the registry's order
entries_to_remove(r, ip_root) ==
    LET all == RegItems(r)
    IN SelectSeq([i \in 1..Len(all) |-> <<all[i].rec.name, all[i].rec.ip_root>>],
                 LAMBDA e : e[2] # ip_root)

RECURSIVE removed_entries(_, _, _)
\* cleanup_cmd lines 518-520: in the turn of each category, the names of
\* entries_to_remove that removed_entries does not hold yet are appended
removed_entries(todo, removed, k) ==
    IF k > Len(Buckets) THEN removed
    ELSE removed_entries(todo,
                         removed \o SelectSeq([i \in 1..Len(todo) |-> todo[i][1]],
                                              LAMBDA n : n \notin Range(removed)),
                         k + 1)

\* cleanup_cmd: confirm is the answer typed at the prompt
cleanup_cmd(ip_root, force, confirm) ==
    LET todo == entries_to_remove(reg, ip_root)
        keep(v) == <<v.name, v.ip_root>> \notin Range(todo)
        done == todo # <<>> /\ (force \/ confirm)
        r2 == IF done
              THEN [b \in BucketSet |-> SelectSeq(reg[b], keep)]
              ELSE reg
    IN /\ Done("cleanup", None, ip_root, force, DefaultTech, None, None,
               [count |-> IF done THEN Len(removed_entries(todo, <<>>, 1))
                          ELSE 0]
               @@ Res(r2, deps, fs,
                      IF todo = <<>> THEN "nothing"
                      ELSE IF done THEN "ok" ELSE "canceled", <<>>))
       /\ check_ip_root_dir(ip_root)
       /\ UNCHANGED <<catalog, probe>>

\* the user creates an empty directory ip_root/<ip>: the destination that
\* install_ip finds existing and empty (line 750)
UserMkdir(ip_root, ip) ==
    /\ ip_root \in rootDirs
    /\ ~fs[<<ip_root, ip>>].exists
    /\ fs' = [fs EXCEPT ![<<ip_root, ip>>] = [exists |-> TRUE, files |-> {}]]
    /\ last' = Cmd("mkdir", ip, ip_root, FALSE, DefaultTech, None, None,
                   Res(reg, deps, fs, "ok", <<>>))
    /\ UNCHANGED <<reg, deps, rootDirs, catalog, probe>>

----------------------------------------------------------------------------
(* The specification of the tool *)

NoProbe == [kind |-> "none"]

InitState ==
    /\ reg = create_local_JSON
    /\ deps = [l \in DepLocs |-> [exists |-> FALSE, IP |-> <<>>]]
    /\ fs = [d \in Roots \X Names |-> NoDir]
    /\ rootDirs = {DefaultRoot}
    /\ last = Cmd("none", None, None, FALSE, DefaultTech, None, None,
                  Res(reg, deps, fs, "ok", <<>>))

Init ==
    /\ InitState
    /\ catalog \in Catalogs
    /\ steps = 0
    /\ probe = NoProbe

Install ==
    \E ip \in Names, ip_root \in Roots, overwrite \in BOOLEAN,
       technology \in Techs, version \in AskedVersions,
       deps_file \in DepFiles, status \in {HTTP_OK, HTTP_NOT_FOUND} :
        install_cmd(ip, ip_root, overwrite, technology, version, deps_file, status)

Uninstall ==
    \E ip \in Names, ip_root \in Roots, dep_file \in DepFiles :
        uninstall_cmd(ip, ip_root, dep_file)

Check == \E ip \in Names \cup {"all"} : check_cmd(ip)

Update ==
    \E ip \in Names \cup {"all"}, failing \in SUBSET Names : update_cmd(ip, failing)

Cleanup ==
    \E ip_root \in Roots, force \in BOOLEAN, confirm \in BOOLEAN :
        cleanup_cmd(ip_root, force, confirm)

Mkdir == \E ip_root \in Roots, ip \in Names : UserMkdir(ip_root, ip)

\* one more command, while the run is within its bound
Step ==
    /\ steps < MaxSteps
    /\ steps' = steps + 1

Next ==
    \/ Step /\ Install
    \/ Step /\ Uninstall
    \/ Step /\ Check
    \/ Step /\ Update
    \/ Step /\ Cleanup
    \/ Step /\ Mkdir

Spec == Init /\ [][Next]_vars

----------------------------------------------------------------------------
(* Properties of install and uninstall *)

\* the records of a registry stored under a root other than ip_root, bucket
\* by bucket and in order
OtherRoots(r, ip_root) ==
    [b \in BucketSet |-> SelectSeq(r[b], LAMBDA v : v.ip_root # ip_root)]

\* how many times x occurs in the list s
Count(s, x) == Cardinality({i \in 1..Len(s) : s[i] = x})

\* no bucket of r2 holds a record more often than the same bucket of r1
NoRecordAdded(r1, r2) ==
    \A b \in BucketSet : \A x \in Range(r2[b]) : Count(r2[b], x) <= Count(r1[b], x)

\* the destination of the command in `last` is a non-empty directory
NonEmpty(f, ip_root, ip) == f[<<ip_root, ip>>].exists /\ f[<<ip_root, ip>>].files # {}

\* C1: a successful install(name, ip_root) followed by uninstall(name, ip_root)
\* gives back the registry and the dependency manifest as they were before
\* the install, and leaves no install directory.  The installs looked at are
\* those onto an absent or empty destination; the uninstall is the one the
\* tool runs on the state the install left; a manifest that did not exist
\* counts as an empty one.
C1_RoundTrip ==
    [][(last'.op = "install" /\ last'.out = "ok"
            /\ ~NonEmpty(fs, last'.root, last'.ip)) =>
          LET un == uninstall_ip(State', last'.ip, last'.root, last'.dfile)
          IN /\ un.out = "ok"
             /\ un.reg = reg
             /\ DepsContents(un.deps) = DepsContents(deps)
             /\ ~un.fs[<<last'.root, last'.ip>>].exists]_vars

\* the latest version of the catalog for ip, as RemoteIP.get_info picks it
RemoteVersion(ip) == RemoteIP_get_info(catalog, ip, DefaultTech, None).version

\* C2: check(name) on a single installed package reports UpToDate exactly
\* when the installed record's version equals the remote version, and
\* UpdateAvailable exactly when they differ.
C2_CheckReport ==
    (last.op = "check" /\ last.ip # "all" /\ last.out = "ok") =>
        LET equal == LocalIP_get_info(reg, last.ip, DefaultTech).version
                         = RemoteVersion(last.ip)
        IN /\ (last.report = "UpToDate") <=> equal
           /\ (last.report = "UpdateAvailable") <=> ~equal

C4_RecordsHaveDirectories ==
    \A i \in 1..RegCount(reg) :
        fs[<<RegItems(reg)[i].rec.ip_root, RegItems(reg)[i].rec.name>>].exists

\* C5: removing the package of one root (by uninstall, or by install with
\* overwrite) leaves the records stored under the other roots as they were.
C5_OtherRootsUntouched ==
    [][(last'.op = "uninstall" \/ (last'.op = "install" /\ last'.ow)) =>
          OtherRoots(reg', last'.root) = OtherRoots(reg, last'.root)]_vars

\* C6: an install without overwrite onto an existing non-empty destination
\* changes neither the registry, nor a manifest, nor a directory, and
\* requests no download.
C6_ExistingDestinationUntouched ==
    [][(last'.op = "install" /\ last'.out # "invalid" /\ ~last'.ow
            /\ NonEmpty(fs, last'.root, last'.ip)) =>
          /\ last'.out = "exists"
          /\ last'.dl = <<>>
          /\ reg' = reg /\ deps' = deps /\ fs' = fs /\ rootDirs' = rootDirs]_vars

\* an install has stopped at the non-empty destination, which still holds
\* its files
C6_Witness ==
    /\ last.op = "install"
    /\ last.out = "exists"
    /\ ~last.ow
    /\ NonEmpty(fs, last.root, last.ip)

----------------------------------------------------------------------------
(* Properties of check and update *)

\* C7: an update that completes leaves every package it found outdated with
\* a record at the same ip_root whose version is the remote one, and the
\* directory holds that release; a single update reports Updated.  The
\* installed record of a package is the one LocalIP.get_info reads.
C7_UpdateInstallsRemoteVersion ==
    [][(last'.op = "update" /\ last'.out = "ok") =>
          \A ip \in (IF last'.ip = "all" THEN Names ELSE {last'.ip}) :
              LET local == LocalIP_get_info(reg, ip, DefaultTech)
                  rec == [name |-> ip, version |-> RemoteVersion(ip),
                          technology |-> DefaultTech, ip_root |-> local.ip_root]
              IN (local.found /\ local.version # RemoteVersion(ip)) =>
                    /\ last'.ip = "all" \/ last'.report = "Updated"
                    /\ \E i \in 1..RegCount(reg') : RegItems(reg')[i].rec = rec
                    /\ LocalIP_get_info(reg', ip, DefaultTech).version
                           = RemoteVersion(ip)
                    /\ fs'[<<local.ip_root, ip>>] =
                           [exists |-> TRUE,
                            files |-> ReleaseFiles(ip, RemoteVersion(ip))]]_vars

\* an outdated package at a root other than the default one has been updated
C7_Witness ==
    /\ last.op = "update"
    /\ last.ip # "all"
    /\ last.report = "Updated"
    /\ last.seen # RemoteVersion(last.ip)
    /\ LocalIP_get_info(reg, last.ip, DefaultTech).version = RemoteVersion(last.ip)
    /\ LocalIP_get_info(reg, last.ip, DefaultTech).ip_root # DefaultRoot

\* the records of the registry whose version is not the remote one
Outdated(r) ==
    {i \in 1..RegCount(r) :
        RegItems(r)[i].rec.version # RemoteVersion(RegItems(r)[i].rec.name)}

\* C8: the check of all packages reports as many outdated packages as there
\* are records whose version differs from the remote one.
C8_CheckAllCount ==
    (last.op = "check" /\ last.ip = "all" /\ last.out = "ok") =>
        last.count = Cardinality(Outdated(reg))

\* C9: after an install whose download and extraction succeeded, the bucket
\* of the package's catalog category holds a record of the package with the
\* resolved version and the install root.
C9_InstallRegisters ==
    (last.op = "install" /\ last.dl # <<>> /\ last.out # "exit_download") =>
        LET remote == RemoteIP_get_info(catalog, last.ip, last.tech, last.ver)
            rec == [name |-> last.ip, version |-> remote.version,
                    technology |-> last.tech, ip_root |-> last.root]
        IN /\ remote.category \in DOMAIN reg
           /\ rec \in Range(reg[remote.category])

----------------------------------------------------------------------------
(* The technologies: installs for either technology, and uninstalls *)

InstallTech ==
    \E ip \in Names, ip_root \in Roots, overwrite \in BOOLEAN,
       technology \in AllTechs, version \in AskedVersions,
       deps_file \in DepFiles :
        install_cmd(ip, ip_root, overwrite, technology, version, deps_file, HTTP_OK)

NextTech ==
    \/ Step /\ InstallTech
    \/ Step /\ Uninstall

SpecTech == Init /\ [][NextTech]_vars

----------------------------------------------------------------------------
(* The Authorization header of the download request (install_ip lines
   758-761, install_deps_ip lines 883-886), on its own *)

HostTokens == {GitHubHost, "gitlab.com", "my"}
PathTokens == {GitHubHost, "acme", "p"}

\* the sequences of 1..n tokens
RECURSIVE TokenSeqs(_, _)
TokenSeqs(tokens, n) ==
    IF n = 1 THEN {<<t>> : t \in tokens}
    ELSE TokenSeqs(tokens, n - 1)
         \cup {Append(r, t) : r \in TokenSeqs(tokens, n - 1), t \in tokens}

\* the repository strings of a catalog: host/path, the host of at most
\* MaxHostLen tokens and the path of at most MaxRepoLen
RepoStrings ==
    {h \o <<"/">> \o q : h \in TokenSeqs(HostTokens, MaxHostLen),
                         q \in TokenSeqs(PathTokens, MaxRepoLen)}

\* the headers of the request: token is whether GITHUB_TOKEN is set
Headers(token, repo) == IF AuthHeader(token, repo) THEN {"Authorization"} ELSE {}

InitAuth ==
    /\ InitState
    /\ catalog = CatalogDoc("analog")
    /\ steps = 0
    /\ probe \in {[kind |-> "auth", token |-> t, repo |-> r, sent |-> FALSE,
                   headers |-> {}] :
                     t \in BOOLEAN, r \in RepoStrings}

SendRequest ==
    /\ probe.kind = "auth"
    /\ ~probe.sent
    /\ probe' = [probe EXCEPT !.sent = TRUE,
                              !.headers = Headers(probe.token, probe.repo)]
    /\ UNCHANGED <<reg, deps, fs, rootDirs, catalog, last, steps>>

NextAuth == SendRequest

SpecAuth == InitAuth /\ [][NextAuth]_vars

\* C10: the request carries the Authorization header exactly when a token
\* is configured and the host of the repository is github.com.
C10_TokenOnlyToGitHub ==
    (probe.kind = "auth" /\ probe.sent) =>
        (("Authorization" \in probe.headers)
            <=> (probe.token /\ RepoHost(probe.repo) = <<GitHubHost>>))

----------------------------------------------------------------------------
(* The download URL (RemoteIP.get_info lines 274-288), on its own *)

\* a version string, as the list of its characters
VersionStrs == {<<"v", "1">>, <<"v", "9">>, <<"v", "1", "0">>}

\* the paths /owner/name/... of 2..n segments, each segment one token
RECURSIVE Segments(_)
Segments(n) ==
    IF n <= 2 THEN {<<"/", t, "/", u>> : t \in PathTokens, u \in PathTokens}
    ELSE Segments(n - 1)
         \cup {r \o <<"/", t>> : r \in Segments(n - 1), t \in PathTokens}

\* repository strings host/owner/name/...: at most MaxHostLen tokens in the
\* host and MaxSegs segments after it
UrlRepos ==
    {h \o q : h \in TokenSeqs(HostTokens, MaxHostLen), q \in Segments(MaxSegs)}

\* len(self.repo.split('/')): one part more than there are "/"
RepoParts(repo) == Cardinality({i \in 1..Len(repo) : repo[i] = "/"}) + 1

\* repo_parts[-1]: what follows the last "/"
RepoBaseName(repo) ==
    LET slashes == {i \in 1..Len(repo) : repo[i] = "/"}
        from == IF slashes = {} THEN 1 ELSE SetMax(slashes) + 1
    IN SubSeq(repo, from, Len(repo))

ArchiveUrl(repo, version) ==
    <<"https://">> \o repo \o <<"/archive/refs/tags/">> \o RepoBaseName(repo)
        \o <<"-", version, ".tar.gz">>

ReleaseAssetUrl(repo, version) ==
    <<"https://">> \o repo \o <<"/releases/download/", version, "/", version,
                                ".tar.gz">>

\* lines 278-288: self.release_url
release_url(repo, version) ==
    IF RepoParts(repo) >= 3 /\ RepoContains(repo, GitHubHost)
    THEN ArchiveUrl(repo, version)
    ELSE ReleaseAssetUrl(repo, version)

InitUrl ==
    /\ InitState
    /\ catalog = CatalogDoc("analog")
    /\ steps = 0
    /\ probe \in {[kind |-> "url", repo |-> r, version |-> v, built |-> FALSE,
                   url |-> <<>>] : r \in UrlRepos, v \in VersionStrs}

BuildUrl ==
    /\ probe.kind = "url"
    /\ ~probe.built
    /\ probe' = [probe EXCEPT !.built = TRUE,
                              !.url = release_url(probe.repo, probe.version)]
    /\ UNCHANGED <<reg, deps, fs, rootDirs, catalog, last, steps>>

NextUrl == BuildUrl

SpecUrl == InitUrl /\ [][NextUrl]_vars

\* C11: the URL is the archive URL https://<repo>/archive/refs/tags/
\* <repoBaseName>-<version>.tar.gz exactly when the host of the repository
\* is github.com, and https://<repo>/releases/download/<version>/
\* <version>.tar.gz for every other host.
C11_UrlByHost ==
    (probe.kind = "url" /\ probe.built) =>
        probe.url = IF RepoHost(probe.repo) = <<GitHubHost>>
                    THEN ArchiveUrl(probe.repo, probe.version)
                    ELSE ReleaseAssetUrl(probe.repo, probe.version)

----------------------------------------------------------------------------
(* The resolver over both catalog schemas, and the service's "latest" *)

\* the most releases of a package
MaxReleases == 3
\* version strings; str comparison is by code point, character by character
RVersions == {"v1", "v9", "v10"}
VersionChars == [v \in RVersions |->
                    CASE v = "v1" -> <<118, 49>>
                      [] v = "v9" -> <<118, 57>>
                      [] OTHER -> <<118, 49, 48>>]
\* the --version of a request: none, or a version string
RequestVersions == {None} \cup RVersions

RECURSIVE ReleaseLists(_)
\* release histories of at most n releases with distinct versions, in the
\* order of the document, each release with its draft flag
ReleaseLists(n) ==
    IF n = 0 THEN {<<>>}
    ELSE With(ReleaseLists(n - 1), LAMBDA shorter :
            shorter \cup
            {Append(r, [version |-> v, draft |-> d]) :
                r \in {x \in shorter : Len(x) = n - 1},
                v \in RVersions, d \in BOOLEAN})

DistinctVersions(r) == \A i, j \in 1..Len(r) : r[i].version = r[j].version => i = j

\* a package, independently of the schema that describes it
Packages ==
    {[name |-> "p", repo |-> rp, category |-> "digital", technology |-> t,
      release |-> r] :
        rp \in {RepoP, RepoQ}, t \in AllTechs,
        r \in {x \in ReleaseLists(MaxReleases) : DistinctVersions(x)}}

\* the flat document of a package: top-level keys are names, the release
\* mapping in its iteration order
FlatDoc(pkg) ==
    [n \in {pkg.name} |->
        [repo |-> pkg.repo, category |-> pkg.category,
         technology |-> pkg.technology,
         release |-> [i \in 1..Len(pkg.release) |-> pkg.release[i].version]]]

\* the legacy document of a package: top-level keys are categories, each
\* with a list of records whose release is a list of objects
LegacyDoc(pkg) ==
    <<[key |-> "analog",
       values |-> <<[name |-> "q", technology |-> DefaultTech,
                     repo |-> RepoQ,
                     release |-> <<[version |-> "v9"]>>]>>],
      [key |-> pkg.category,
       values |-> <<[name |-> pkg.name, technology |-> pkg.technology,
                     repo |-> pkg.repo,
                     release |-> [i \in 1..Len(pkg.release) |->
                                    [version |-> pkg.release[i].version]]]>>]>>

RECURSIVE LegacyItemsFrom(_, _)
\* for key, values in data.items(): for value in values
LegacyItemsFrom(doc, i) ==
    IF i > Len(doc) THEN <<>>
    ELSE [j \in 1..Len(doc[i].values) |->
            [key |-> doc[i].key, value |-> doc[i].values[j]]]
         \o LegacyItemsFrom(doc, i + 1)

\* the attributes of a RemoteIP that get_info has not set
Unset == [set |-> FALSE, crashed |-> FALSE, repo |-> <<>>, category |-> None,
          version |-> None]

\* a legacy match that falls back to the last release when the version asked
\* is not in the list
LegacyMatch_Fallback(self, key, value, version) ==
    IF Len(value.release) = 0
    THEN [self EXCEPT !.crashed = TRUE]
    ELSE [set |-> TRUE, crashed |-> FALSE, repo |-> value.repo,
          category |-> key,
          version |-> IF version # None
                         /\ \E i \in 1..Len(value.release) :
                                value.release[i].version = version
                      THEN version
                      ELSE value.release[Len(value.release)].version]

\* lines 250-260 for one matching record: with version None the last element
\* of the release list (IndexError on an empty list), else every release
\* whose version is the one asked sets self.version
LegacyMatch(self, key, value, version) ==
    IF version = None /\ Len(value.release) = 0
    THEN [self EXCEPT !.crashed = TRUE]
    ELSE [set |-> TRUE, crashed |-> FALSE, repo |-> value.repo,
          category |-> key,
          version |-> IF version = None
                      THEN value.release[Len(value.release)].version
                      ELSE IF \E i \in 1..Len(value.release) :
                                value.release[i].version = version
                           THEN version
                           ELSE self.version]

RECURSIVE LegacyScan(_, _, _, _, _, _)
LegacyScan(items, k, self, ip, technology, version) ==
    IF k > Len(items) \/ self.crashed THEN self
    ELSE LegacyScan(items, k + 1,
                    IF items[k].value.name = ip
                       /\ items[k].value.technology = technology
                    THEN LegacyMatch(self, items[k].key, items[k].value,
                                     version)
                    ELSE self,
                    ip, technology, version)

\* RemoteIP.get_info, legacy branch.  Building the URL reads self.repo and
\* self.version: AttributeError (ok = FALSE) when either was never set
RemoteIP_get_info_legacy(doc, ip, technology, version) ==
    With(LegacyScan(LegacyItemsFrom(doc, 1), 1, Unset, ip, technology,
                    version),
         LAMBDA self :
            [ok |-> ~self.crashed /\ self.set /\ self.version # None,
             name |-> ip,
             repo |-> self.repo,
             category |-> self.category,
             technology |-> technology,
             version |-> IF self.crashed THEN None ELSE self.version])

\* what a caller of get_info has in hand: the descriptor and its URL, or the
\* exception
Descriptor(remote) ==
    IF remote.ok
    THEN [ok |-> TRUE, name |-> remote.name, repo |-> remote.repo,
          category |-> remote.category, technology |-> remote.technology,
          version |-> remote.version,
          url |-> release_url(remote.repo, remote.version)]
    ELSE [ok |-> FALSE, name |-> remote.name, repo |-> <<>>,
          category |-> None, technology |-> None, version |-> None,
          url |-> <<>>]

\* str < str
RECURSIVE LexLessFrom(_, _, _)
LexLessFrom(a, b, i) ==
    IF i > Len(a) THEN i <= Len(b)
    ELSE IF i > Len(b) THEN FALSE
    ELSE IF a[i] # b[i] THEN a[i] < b[i]
    ELSE LexLessFrom(a, b, i + 1)

StrLess(v, w) == LexLessFrom(VersionChars[v], VersionChars[w], 1)

\* non_draft_versions.sort(); non_draft_versions[-1]
SortedLast(S) == CHOOSE v \in S : \A w \in S \ {v} : StrLess(w, v)

\* download_ip(ip_name, "latest") of the catalog service: the version it
\* resolves, 404 without a non-draft release
download_ip_latest(pkg) ==
    With({pkg.release[i].version :
            i \in {j \in 1..Len(pkg.release) : ~pkg.release[j].draft}},
         LAMBDA non_draft_versions :
            IF non_draft_versions = {}
            THEN [status |-> HTTP_NOT_FOUND, version |-> None]
            ELSE [status |-> HTTP_OK,
                  version |-> SortedLast(non_draft_versions)])

NoDescriptor == Descriptor([ok |-> FALSE, name |-> None])

InitResolve ==
    /\ InitState
    /\ catalog = CatalogDoc("analog")
    /\ steps = 0
    /\ probe \in {[kind |-> "resolve", pkg |-> k, technology |-> t,
                   version |-> v, done |-> {}, requests |-> {},
                   flat |-> NoDescriptor, legacy |-> NoDescriptor,
                   service |-> [status |-> 0, version |-> None]] :
                    k \in Packages, t \in AllTechs, v \in RequestVersions}

ResolveFlat ==
    /\ probe.kind = "resolve"
    /\ "flat" \notin probe.done
    /\ probe' = [probe EXCEPT
          !.done = @ \cup {"flat"},
          !.flat = Descriptor(RemoteIP_get_info(FlatDoc(probe.pkg),
                                                probe.pkg.name,
                                                probe.technology,
                                                probe.version))]
    /\ UNCHANGED <<reg, deps, fs, rootDirs, catalog, last, steps>>

ResolveLegacy ==
    /\ probe.kind = "resolve"
    /\ "flat" \in probe.done
    /\ "legacy" \notin probe.done
    /\ probe' = [probe EXCEPT
          !.done = @ \cup {"legacy"},
          !.legacy = Descriptor(RemoteIP_get_info_legacy(
                                    LegacyDoc(probe.pkg), probe.pkg.name,
                                    probe.technology, probe.version))]
    /\ UNCHANGED <<reg, deps, fs, rootDirs, catalog, last, steps>>

ServiceLatest ==
    /\ probe.kind = "resolve"
    /\ "legacy" \in probe.done
    /\ "service" \notin probe.done
    /\ probe' = [probe EXCEPT !.done = @ \cup {"service"},
                              !.service = download_ip_latest(probe.pkg)]
    /\ UNCHANGED <<reg, deps, fs, rootDirs, catalog, last, steps>>

\* install_ip lines 753-765 after get_info on a document of the schema: the
\* exception of get_info leaves install_ip before requests.get
RequestRelease(schema) ==
    /\ probe.kind = "resolve"
    /\ "service" \in probe.done
    /\ schema \notin {r.schema : r \in probe.requests}
    /\ "request" \notin probe.done
    /\ With(IF schema = "flat" THEN probe.flat ELSE probe.legacy,
            LAMBDA remote_ip :
                probe' = [probe EXCEPT
                    !.done = @ \cup {"request"},
                    !.requests = IF remote_ip.ok
                                 THEN @ \cup {[schema |-> schema,
                                               url |-> remote_ip.url]}
                                 ELSE @])
    /\ UNCHANGED <<reg, deps, fs, rootDirs, catalog, last, steps>>

Request == \E schema \in {"flat", "legacy"} : RequestRelease(schema)

NextResolve == ResolveFlat \/ ResolveLegacy \/ ServiceLatest \/ Request

SpecResolve == InitResolve /\ [][NextResolve]_vars

\* C12: for the same package and the same (name, technology, version), the
\* flat and the legacy document yield the same descriptor (repo, version,
\* technology, category, download URL) and the same success or failure.
C12_SchemasAgree ==
    (probe.kind = "resolve" /\ {"flat", "legacy"} \subseteq probe.done) =>
        probe.flat = probe.legacy

ReleaseVersions(pkg) == {pkg.release[i].version : i \in 1..Len(pkg.release)}

LastRelease(pkg) == pkg.release[Len(pkg.release)].version

C14_AbsentVersionFails ==
    (probe.kind = "resolve" /\ probe.version # None
     /\ probe.version \notin ReleaseVersions(probe.pkg)) =>
        /\ "flat" \in probe.done => ~probe.flat.ok /\ probe.flat.url = <<>>
        /\ "legacy" \in probe.done =>
              ~probe.legacy.ok /\ probe.legacy.url = <<>>
        /\ probe.requests = {}

\* a package with releases, asked in its own technology for a version it has
\* not, after both resolutions and the request step of install_ip
C14_Witness ==
    /\ probe.kind = "resolve" /\ "request" \in probe.done
    /\ probe.version # None
    /\ Len(probe.pkg.release) > 0
    /\ probe.version \notin ReleaseVersions(probe.pkg)
    /\ probe.pkg.technology = probe.technology
    /\ ~probe.flat.ok /\ ~probe.legacy.ok

\* C19: with no version given, the version the resolver picks for a package
\* is the version the service's download endpoint resolves for "latest" of
\* the same package, and the one finds a release exactly when the other
\* does.
C19_ResolverAgreesWithService ==
    (probe.kind = "resolve" /\ probe.version = None
     /\ {"flat", "service"} \subseteq probe.done) =>
        /\ probe.flat.ok <=> probe.service.status = HTTP_OK
        /\ probe.flat.ok => probe.flat.version = probe.service.version

----------------------------------------------------------------------------
(* Properties of a repeated install *)

\* install_ip run once more on the state s with the arguments of the last
\* command and the same archive served
InstallAgain(s, c) ==
    install_ip(s, catalog, [n \in Names |-> HTTP_OK], c.ip, TRUE, c.tech,
               c.ver, c.root, c.dfile)

\* C15: after an install with overwrite has completed, the same install run
\* once more against the same archive leaves destRoot/p with the contents it
\* had after the first run.
C15_OverwriteIdempotent ==
    [][(last'.op = "install" /\ last'.ow /\ last'.out = "ok") =>
          /\ NonEmpty(fs', last'.root, last'.ip)
          /\ InstallAgain(State', last').fs[<<last'.root, last'.ip>>]
                = fs'[<<last'.root, last'.ip>>]]_vars

\* an install with overwrite has completed, and run once more it completes
\* again
C15_Witness ==
    /\ last.op = "install" /\ last.ow /\ last.out = "ok"
    /\ NonEmpty(fs, last.root, last.ip)
    /\ InstallAgain(State, last).out = "ok"

----------------------------------------------------------------------------
(* Properties of cleanup *)

\* the registry r without the records stored under a root other than ip_root
OnlyRoot(r, ip_root) ==
    [b \in BucketSet |-> SelectSeq(r[b], LAMBDA v : v.ip_root = ip_root)]

\* C16: a cleanup that is forced or confirmed removes exactly the records
\* whose ip_root differs from the target root and keeps the others, in place;
\* the count it reports is the number of records removed; without such a
\* record the registry is unchanged and nothing is reported removed.
C16_CleanupRemovesMismatched ==
    [][last'.op = "cleanup" =>
          LET mismatched == RegCount(reg) - RegCount(OnlyRoot(reg, last'.root))
          IN /\ last'.out = "ok" =>
                    /\ reg' = OnlyRoot(reg, last'.root)
                    /\ last'.count = mismatched
                    /\ last'.count = RegCount(reg) - RegCount(reg')
             /\ (mismatched > 0 /\ last'.ow) => last'.out = "ok"
             /\ mismatched = 0 =>
                    /\ last'.out = "nothing"
                    /\ reg' = reg
                    /\ last'.count = 0]_vars

\* a cleanup has removed one record and kept the one stored under the target
\* root
C16_Witness ==
    /\ last.op = "cleanup" /\ last.out = "ok"
    /\ last.count = 1
    /\ RegCount(reg) = 1
    /\ \A i \in 1..RegCount(reg) : RegItems(reg)[i].rec.ip_root = last.root

\* C17: a cleanup leaves the filesystem and the dependency manifests as they
\* were: no directory is created or deleted; the registry changes only when
\* the cleanup was forced or confirmed, and a declined one leaves it as it
\* was.
C17_CleanupTouchesOnlyRegistry ==
    [][last'.op = "cleanup" =>
          /\ fs' = fs
          /\ rootDirs' = rootDirs
          /\ deps' = deps
          /\ last'.out # "ok" => reg' = reg]_vars

----------------------------------------------------------------------------
(* The layout of an extracted archive *)

\* the most entries of a scratch directory
MaxEntries == 3
EntryNames == {"a", "b", "c"}
ChildNames == {"x", "y"}

\* an entry of the scratch directory: a file, or a directory with children
Entries ==
    {[ename |-> n, isdir |-> FALSE, children |-> {}] : n \in EntryNames}
    \cup {[ename |-> n, isdir |-> TRUE, children |-> c] :
            n \in EntryNames, c \in SUBSET ChildNames}

\* os.listdir(temp_extract_dir): entries with distinct names
Listings ==
    {s \in SUBSET Entries :
        /\ Cardinality(s) <= MaxEntries
        /\ \A e, f \in s : e.ename = f.ename => e = f}

InitLayout ==
    /\ InitState
    /\ catalog = CatalogDoc("analog")
    /\ steps = 0
    /\ probe \in {[kind |-> "layout", scratch |-> s, copied |-> FALSE,
                   files |-> {}] : s \in Listings}

\* install_ip lines 793-822 on the scratch directory, ip_path being new
CopyExtracted ==
    /\ probe.kind = "layout"
    /\ ~probe.copied
    /\ probe' = [probe EXCEPT !.copied = TRUE,
                              !.files = Extracted(probe.scratch)]
    /\ UNCHANGED <<reg, deps, fs, rootDirs, catalog, last, steps>>

NextLayout == CopyExtracted

SpecLayout == InitLayout /\ [][NextLayout]_vars

\* the scratch directory holds one entry, a directory
Wrapped(scratch) == \E e \in scratch : scratch = {e} /\ e.isdir

\* C18: when the scratch directory holds exactly one entry and that entry is
\* a directory, what is installed under destRoot/name is the children of
\* that directory; in every other case it is the entries of the scratch
\* directory.
C18_LayoutClassification ==
    (probe.kind = "layout" /\ probe.copied) =>
        /\ Wrapped(probe.scratch) =>
              \E e \in probe.scratch : probe.files = e.children
        /\ ~Wrapped(probe.scratch) =>
              probe.files = {e.ename : e \in probe.scratch}

\* a single directory with children has been unwrapped
C18_Witness ==
    /\ probe.kind = "layout" /\ probe.copied
    /\ Wrapped(probe.scratch)
    /\ probe.files = ChildNames

----------------------------------------------------------------------------
(* Properties of uninstall *)

\* C20: after an uninstall of name at ip_root has completed, the registry
\* holds no record with that name and that root.
C20_UninstallLeavesNoEntry ==
    [][(last'.op = "uninstall" /\ last'.out = "ok") =>
          ~\E i \in 1..RegCount(reg') :
              /\ RegItems(reg')[i].rec.name = last'.ip
              /\ RegItems(reg')[i].rec.ip_root = last'.root]_vars

----------------------------------------------------------------------------
(* Frame properties of check and update *)

\* the installed version of ip is the one the remote catalog resolves
UpToDate(ip) ==
    /\ LocalIP_get_info(reg, ip, DefaultTech).found
    /\ LocalIP_get_info(reg, ip, DefaultTech).version = RemoteVersion(ip)

\* C21: an update of one package whose installed version equals the remote
\* version only reports: it requests no archive, and the registry, the
\* manifests and the install directories are as they were.
C21_UpToDateUpdateOnlyReports ==
    [][(last'.op = "update" /\ last'.ip # "all" /\ last'.out # "invalid"
        /\ UpToDate(last'.ip)) =>
          /\ last'.dl = <<>>
          /\ reg' = reg
          /\ deps' = deps
          /\ fs' = fs]_vars


\* manage.py check (lines 356-369): check_IP for one package or for "all",
\* with the version given
check(ip, version) ==
    /\ Done("check", ip, None, TRUE, DefaultTech, version, None,
            IF ip # "all" /\ ~Installed(reg, ip)
            THEN Res(reg, deps, fs, "invalid", <<>>)
            ELSE check_IP(State, catalog, [n \in Names |-> HTTP_OK], ip,
                          TRUE, version, DefaultTech))
    /\ UNCHANGED <<rootDirs, catalog, probe>>

CheckVersion ==
    \E ip \in Names \cup {"all"}, version \in AskedVersions : check(ip, version)

\* installs, and the two check operations of manage.py
NextCheck ==
    \/ Step /\ Install
    \/ Step /\ Check
    \/ Step /\ CheckVersion

SpecCheck == Init /\ [][NextCheck]_vars

\* C22: a check, of one package or of all, requests no archive and leaves
\* the registry, the manifests and the install directories as they were.
C22_CheckReadOnly ==
    [][last'.op = "check" =>
          /\ last'.dl = <<>>
          /\ reg' = reg
          /\ deps' = deps
          /\ fs' = fs]_vars

----------------------------------------------------------------------------
(* Invariants of the registry *)

\* C23: the registry holds at most one record of a name at a root.
C23_OneRecordPerNameAndRoot ==
    \A i, j \in 1..RegCount(reg) :
        (/\ RegItems(reg)[i].rec.name = RegItems(reg)[j].rec.name
         /\ RegItems(reg)[i].rec.ip_root = RegItems(reg)[j].rec.ip_root)
            => i = j


\* the catalog record of ip has no release of the version asked
ResolutionFails(ip, version) ==
    ~RemoteIP_get_info(catalog, ip, DefaultTech, version).ok

\* C27: an install whose resolution fails leaves the registry, the manifests
\* and the install directory of the package as they were, with or without
\* overwrite and whether the destination was absent, empty or not.
C27_FailedResolutionChangesNothing ==
    [][(/\ last'.op = "install"
        /\ last'.out # "invalid"
        /\ ResolutionFails(last'.ip, last'.ver)) =>
          /\ reg' = reg
          /\ deps' = deps
          /\ fs'[<<last'.root, last'.ip>>] = fs[<<last'.root, last'.ip>>]]_vars


\* C30: after an update of all packages that completed, every record of the
\* registry, those of a package installed at several roots included, has
\* the version the remote catalog resolves for its name.
C30_UpdateAllUpdatesEveryRecord ==
    [][(last'.op = "update" /\ last'.ip = "all" /\ last'.out = "ok") =>
          \A i \in 1..RegCount(reg') :
              RegItems(reg')[i].rec.version
                  = RemoteVersion(RegItems(reg')[i].rec.name)]_vars

----------------------------------------------------------------------------
(* The bulk loops of check and update, over a catalog in which every package
   has an older release *)

CatalogTwo ==
    [p |-> [repo |-> RepoP, category |-> "digital", release |-> <<"v1", "v2">>],
     q |-> [repo |-> RepoQ, category |-> "analog", release |-> <<"v1", "v2">>]]

InitBulk ==
    /\ InitState
    /\ catalog = CatalogTwo
    /\ steps = 0
    /\ probe = NoProbe

NextBulk ==
    \/ Step /\ Install
    \/ Step /\ Check
    \/ Step /\ Update

SpecBulk == InitBulk /\ [][NextBulk]_vars

RECURSIVE IsSubsequence(_, _, _, _)
\* d from position i on is v from position j on with elements left out
IsSubsequence(d, i, v, j) ==
    IF i > Len(d) THEN TRUE
    ELSE IF j > Len(v) THEN FALSE
    ELSE IsSubsequence(d, IF d[i] = v[j] THEN i + 1 ELSE i, v, j + 1)

\* the records of the package ip, bucket by bucket
RecordsOf(r, ip) == [b \in BucketSet |-> SelectSeq(r[b], LAMBDA x : x.name = ip)]

\* C25: a check or an update of all packages visits the names of the list
\* read before the loop, in the registry's order and one after another;
\* the archives are requested in that order; a run that completes has
\* visited the whole list; a failed download is the last request of the
\* run, no record of that package has been added, and the packages further
\* down the list are not visited and their records and directories are as
\* they were.
C25_BulkSequentialAndFatal ==
    [][(last'.op \in {"check", "update"} /\ last'.ip = "all") =>
          LET IP_list == get_IP_list_local(reg)
          IN /\ Len(last'.visited) <= Len(IP_list)
             /\ \A i \in 1..Len(last'.visited) : last'.visited[i] = IP_list[i]
             /\ IsSubsequence(last'.dl, 1, last'.visited, 1)
             /\ last'.out = "ok" => last'.visited = IP_list
             /\ last'.out = "exit_download" =>
                  /\ last'.dl # <<>>
                  /\ last'.dl[Len(last'.dl)] = last'.visited[Len(last'.visited)]
                  /\ \A b \in BucketSet :
                        IsSubsequence(
                            RecordsOf(reg', last'.dl[Len(last'.dl)])[b], 1,
                            RecordsOf(reg, last'.dl[Len(last'.dl)])[b], 1)
                  /\ \A m \in Names \ Range(last'.visited) :
                        /\ RecordsOf(reg', m) = RecordsOf(reg, m)
                        /\ \A ip_root \in Roots :
                              fs'[<<ip_root, m>>] = fs[<<ip_root, m>>]]_vars

\* an update of all packages has stopped at a failed download of the first
\* package, and a package further down the list is still outdated
C25_Witness ==
    /\ last.op = "update" /\ last.ip = "all" /\ last.out = "exit_download"
    /\ Len(last.visited) = 1
    /\ \E i \in Outdated(reg) : RegItems(reg)[i].rec.name \notin Range(last.visited)

----------------------------------------------------------------------------
(* Two invocations of the tool at the end of install_ip (lines 831-832):
   each reads the registry, appends its record and writes the document back,
   then does the same with the manifest.  Nothing locks the files. *)

Procs == {"A", "B"}

\* what the invocation proc registers: the record of its package at its root
RaceInfo(proc) == RemoteIP_get_info(catalog, probe.ip[proc], DefaultTech, None)

RaceRecord(proc) ==
    [name |-> probe.ip[proc], version |-> RaceInfo(proc).version,
     technology |-> DefaultTech, ip_root |-> probe.root[proc]]

InitRace ==
    /\ InitState
    /\ catalog = CatalogDoc("analog")
    /\ steps = 0
    /\ probe \in {[kind |-> "race",
                   ip |-> [proc \in Procs |-> IF proc = "A" THEN "p" ELSE "q"],
                   root |-> [proc \in Procs |-> IF proc = "A" THEN ra ELSE rb],
                   pc |-> [proc \in Procs |-> "add_ip_to_json"],
                   buf |-> [proc \in Procs |-> reg],
                   dbuf |-> [proc \in Procs |-> deps]] :
                    ra \in Roots, rb \in Roots}

\* add_ip_to_json lines 123-125: json.load of the registry
ReadRegistry(proc) ==
    /\ probe.kind = "race"
    /\ probe.pc[proc] = "add_ip_to_json"
    /\ probe' = [probe EXCEPT !.pc[proc] = "append", !.buf[proc] = reg]
    /\ UNCHANGED <<reg, deps, fs, rootDirs, catalog, last, steps>>

\* a write that appends to the registry as it is at the time of the write
WriteRegistry_Locked(proc) ==
    /\ probe.kind = "race"
    /\ probe.pc[proc] = "append"
    /\ reg' = add_ip_to_json(reg, RaceInfo(proc), probe.root[proc]).reg
    /\ probe' = [probe EXCEPT !.pc[proc] = "create_deps"]
    /\ UNCHANGED <<deps, fs, rootDirs, catalog, last, steps>>

\* add_ip_to_json lines 131-134: append to the document read, json.dump
WriteRegistry(proc) ==
    /\ probe.kind = "race"
    /\ probe.pc[proc] = "append"
    /\ reg' = add_ip_to_json(probe.buf[proc], RaceInfo(proc),
                             probe.root[proc]).reg
    /\ probe' = [probe EXCEPT !.pc[proc] = "create_deps"]
    /\ UNCHANGED <<deps, fs, rootDirs, catalog, last, steps>>

\* create_deps lines 176-182: json.load of the manifest, or the empty one
ReadDeps(proc) ==
    /\ probe.kind = "race"
    /\ probe.pc[proc] = "create_deps"
    /\ probe' = [probe EXCEPT !.pc[proc] = "dump", !.dbuf[proc] = deps]
    /\ UNCHANGED <<reg, deps, fs, rootDirs, catalog, last, steps>>

\* create_deps lines 183-192: append to the document read, json.dump; the
\* invocation then ends with its message of success
WriteDeps(proc) ==
    /\ probe.kind = "race"
    /\ probe.pc[proc] = "dump"
    /\ deps' = [deps EXCEPT ![probe.root[proc]] =
                  create_deps(probe.dbuf[proc], RaceInfo(proc), None,
                              probe.root[proc])[probe.root[proc]]]
    /\ probe' = [probe EXCEPT !.pc[proc] = "done"]
    /\ UNCHANGED <<reg, fs, rootDirs, catalog, last, steps>>

NextRace ==
    \E proc \in Procs :
        \/ ReadRegistry(proc)
        \/ WriteRegistry(proc)
        \/ ReadDeps(proc)
        \/ WriteDeps(proc)

SpecRace == InitRace /\ [][NextRace]_vars

\* C24: when both invocations have ended with success, the registry holds
\* the record of at least one of them, and it holds both exactly when one of
\* them read the registry after the other had written it; when their reads
\* and writes interleave, one record is lost.
C24_LostUpdateWhenInterleaved ==
    (probe.kind = "race" /\ \A proc \in Procs : probe.pc[proc] = "done") =>
        LET has(r, proc) == \E i \in 1..RegCount(r) :
                                RegItems(r)[i].rec = RaceRecord(proc)
        IN /\ has(reg, "A") \/ has(reg, "B")
           /\ (has(reg, "A") /\ has(reg, "B"))
                <=> (has(probe.buf["A"], "B") \/ has(probe.buf["B"], "A"))

\* both invocations have ended with success and the registry holds one
\* record only
C24_Witness ==
    /\ probe.kind = "race"
    /\ \A proc \in Procs : probe.pc[proc] = "done"
    /\ RegCount(reg) = 1

----------------------------------------------------------------------------
(* install_deps_ip: the bulk install of the entries of a manifest *)

\* install_deps_ip lines 856-956 for the entry e: the IP_list test, the
\* guard on the destination, then the steps of install_ip from its line 753,
\* without its create_deps (the last call is add_ip_to_json, line 956)
install_deps_entry(st, cat, http, e, overwrite, ip_root, deps_file, IP_list) ==
    IF e.name \notin IP_list
    THEN Res(st.reg, st.deps, st.fs, "invalid", <<>>)
    ELSE IF NonEmpty(st.fs, ip_root, e.name) /\ ~overwrite
    THEN Res(st.reg, st.deps, st.fs, "exists", <<>>)
    ELSE With(IF NonEmpty(st.fs, ip_root, e.name)
              THEN RemoveExisting(st, e.name, ip_root, deps_file)
              ELSE Res(st.reg, st.deps,
                       [st.fs EXCEPT ![<<ip_root, e.name>>] = NoDir], "ok", <<>>),
              LAMBDA rem :
                IF Aborted(rem.out) THEN rem
                ELSE With(InstallFetch(StateOf(rem), cat, http, e.name,
                                       e.technology, e.version, ip_root,
                                       deps_file),
                          LAMBDA ins : IF ins.out = "ok"
                                       THEN [ins EXCEPT !.deps = rem.deps]
                                       ELSE ins))

RECURSIVE install_deps_loop(_, _, _, _, _, _, _, _, _, _)
\* for ip_obj in ips (line 855): ips is the list read before the loop; the
\* return of line 869 and every exit(1) end the loop
install_deps_loop(st, cat, http, ips, i, overwrite, ip_root, deps_file, IP_list, dl) ==
    IF i > Len(ips)
    THEN Res(st.reg, st.deps, st.fs, "ok", dl)
    ELSE With(install_deps_entry(st, cat, http, ips[i], overwrite, ip_root,
                                 deps_file, IP_list), LAMBDA turn :
            IF turn.out # "ok"
            THEN [turn EXCEPT !.dl = dl \o turn.dl]
            ELSE install_deps_loop(StateOf(turn), cat, http, ips, i + 1,
                                   overwrite, ip_root, deps_file, IP_list,
                                   dl \o turn.dl))

\* install_deps_ip: exit(1) without the manifest (lines 843-853), else the
\* loop over its entries
install_deps_ip(st, cat, http, overwrite, ip_root, deps_file, IP_list) ==
    IF ~st.deps[DepsLoc(deps_file, ip_root)].exists
    THEN Res(st.reg, st.deps, st.fs, "exit_nofile", <<>>)
    ELSE install_deps_loop(st, cat, http, st.deps[DepsLoc(deps_file, ip_root)].IP,
                           1, overwrite, ip_root, deps_file, IP_list, <<>>)

\* install_deps_cmd -> install_deps -> install_deps_ip
install_deps_cmd(ip_root, overwrite, dep_file, status) ==
    /\ Done("install_deps", None, ip_root, overwrite, DefaultTech, None, dep_file,
            install_deps_ip(State, catalog, [n \in Names |-> status], overwrite,
                            ip_root, dep_file, get_IP_list_remote(catalog)))
    /\ check_ip_root_dir(ip_root)
    /\ UNCHANGED <<catalog, probe>>

InstallDeps ==
    \E ip_root \in Roots, overwrite \in BOOLEAN, dep_file \in {None} \cup Roots,
       status \in {HTTP_OK, HTTP_NOT_FOUND} :
        install_deps_cmd(ip_root, overwrite, dep_file, status)

\* the manifest of the default root is a file of the project, of at most
\* MaxDeps entries, written before the tool runs
InitDeps ==
    /\ reg = create_local_JSON
    /\ fs = [d \in Roots \X Names |-> NoDir]
    /\ rootDirs = {DefaultRoot}
    /\ \E m \in {<<>>} \cup TokenSeqs([name : Names, version : {"v2"},
                                      technology : {DefaultTech}], MaxDeps) :
          deps = [l \in DepLocs |->
                    IF l = DefaultRoot /\ m # <<>>
                    THEN [exists |-> TRUE, IP |-> m]
                    ELSE [exists |-> FALSE, IP |-> <<>>]]
    /\ last = Cmd("none", None, None, FALSE, DefaultTech, None, None,
                  Res(reg, deps, fs, "ok", <<>>))
    /\ catalog = CatalogDoc("analog")
    /\ steps = 0
    /\ probe = NoProbe

NextDeps ==
    \/ Step /\ Install
    \/ Step /\ InstallDeps

SpecDeps == InitDeps /\ [][NextDeps]_vars

\* the manifest that an install_deps command reads
ManifestRead(d, c) == d[DepsLoc(c.dfile, c.root)].IP

\* C28: a bulk install, with or without overwrite, leaves the manifest it
\* reads with every entry it listed before the run.
C28_BulkInstallKeepsManifest ==
    [][(last'.op = "install_deps" /\ last'.out # "exit_nofile") =>
          \A e \in Range(ManifestRead(deps, last')) :
              e \in Range(ManifestRead(deps', last'))]_vars

\* C29: a bulk install that no failure ended has attempted every entry of
\* the manifest: each entry's package is installed under the root, whether
\* or not an entry before it was skipped for its non-empty destination.
C29_BulkInstallAttemptsEveryEntry ==
    [][(last'.op = "install_deps" /\ last'.out \in {"ok", "exists"}) =>
          \A e \in Range(ManifestRead(deps, last')) :
              NonEmpty(fs', last'.root, e.name)]_vars

----------------------------------------------------------------------------
(* Which branch, flat or legacy, each reader of a document takes *)

\* the most top-level keys of a document
MaxKeys == 2

\* RemoteIP.get_info line 203: self.ip in data
resolver_takes_flat(doc, ip) == \E i \in 1..Len(doc) : doc[i].key = ip

\* get_IP_list lines 638-639: the first key's value has a "description"
lister_takes_flat(doc) == doc # <<>> /\ doc[1].value = "described"

\* cleanup lines 545-546: the same test, with data.get(first_key, {})
cleanup_takes_flat(doc) == doc # <<>> /\ doc[1].value = "described"

\* a document is its top-level keys in order, each with the shape of its
\* value: an object with a description, an object without, or a list
InitDetect ==
    /\ InitState
    /\ catalog = CatalogDoc("analog")
    /\ steps = 0
    /\ probe \in {[kind |-> "detect", doc |-> d, ip |-> n, classified |-> FALSE,
                   resolver |-> FALSE, lister |-> FALSE, cleanup |-> FALSE] :
                    n \in Names,
                    d \in {x \in {<<>>} \cup TokenSeqs(
                                [key : Names \cup {"digital"},
                                 value : {"described", "object", "list"}],
                                MaxKeys) :
                              \A i, j \in 1..Len(x) :
                                  x[i].key = x[j].key => i = j}}

Classify ==
    /\ probe.kind = "detect"
    /\ ~probe.classified
    /\ probe' = [probe EXCEPT
                    !.classified = TRUE,
                    !.resolver = resolver_takes_flat(probe.doc, probe.ip),
                    !.lister = lister_takes_flat(probe.doc),
                    !.cleanup = cleanup_takes_flat(probe.doc)]
    /\ UNCHANGED <<reg, deps, fs, rootDirs, catalog, last, steps>>

SpecDetect == InitDetect /\ [][Classify]_vars

\* C26: for every document and name, the resolver takes the flat branch
\* exactly when the name lister and the cleanup scan take it.
C26_SameDetection ==
    (probe.kind = "detect" /\ probe.classified) =>
        /\ probe.resolver <=> probe.lister
        /\ probe.resolver <=> probe.cleanup

====
